---- MODULE Spec2Model ----
(***************************************************************************)
(* State-machine model of feeds/torrentpier.py: the tracker poller that    *)
(* seeds an LRU of seen links from a first sweep and then polls forever,   *)
(* printing entries whose link is not in the LRU.                          *)
(*                                                                         *)
(* utils.cache.LRU and utils.config are imported by the source but are not *)
(* part of it; the LRU operators below follow the Dedup Cache contract     *)
(* (ordered keys, strict least-recently-used eviction, membership test     *)
(* refreshes recency).  The cache is a sequence of links, least recently   *)
(* accessed first.                                                         *)
(***************************************************************************)
EXTENDS Integers, Sequences, FiniteSets, TLC

\* content holds the content rows under extraction in ExtractSpec; Spec draws
\* the parse result in one step and leaves it empty
VARIABLES phase, pc, cache, collected, pending, html, respOpen, sessionOpen,
          stdout, stderr, exitCode, exitMsg, waited, cycle,
          seeded, seen, sameListing, lastEnd, status, content

vars == <<phase, pc, cache, collected, pending, html, respOpen, sessionOpen,
          stdout, stderr, exitCode, exitMsg, waited, cycle,
          seeded, seen, sameListing, lastEnd, status, content>>

(***************************************************************************)
(* Bounds of the model and configuration values (utils.config).            *)
(***************************************************************************)
cache_limit == 2
timeout_interval == 1
MaxRows == 4
MaxCycles == 2

\* errno.ECONNRESET
ECONNRESET == 104

tracker_url == "https://tracker"

\* COOLDOWN = timeout_interval() * 10
CooldownShort == timeout_interval
COOLDOWN == timeout_interval * 10

(***************************************************************************)
(* Inputs: the exceptions session.get can raise (HTTP_EXCEPTIONS), the     *)
(* response statuses, and the pages the tracker can serve.                 *)
(***************************************************************************)
HTTP_EXCEPTIONS ==
    { [type |-> "ClientOSError", errno |-> ECONNRESET],
      [type |-> "ClientOSError", errno |-> 32],
      [type |-> "OSError", errno |-> ECONNRESET],
      [type |-> "OSError", errno |-> 32],
      [type |-> "ClientPayloadError", errno |-> 0],
      [type |-> "InvalidURL", errno |-> 0],
      [type |-> "TimeoutError", errno |-> 0] }

\* isinstance(e, OSError): ClientOSError derives from OSError
IsOSError(e) == e.type \in {"ClientOSError", "OSError"}

\* the condition guarding the stderr print in tracker()
ReportedAll(e) == IsOSError(e)
ReportedInverted(e) == IsOSError(e) /\ e.errno = ECONNRESET
Reported(e) == IsOSError(e) /\ e.errno # ECONNRESET

Statuses == {200, 302, 404}

\* `if resp.status != 200: return`
StatusOKOrRedirect(st) == st \in {200, 302}
StatusOK(st) == st = 200

\* the hrefs a download anchor can carry
Hrefs == {"/t/1", "/t/2", "/t/3"}

\* a content row as the two XPath string() results: "" when the node is absent
Rows == {[name |-> "A", href |-> h] : h \in Hrefs}
          \cup {[name |-> "", href |-> "/t/1"], [name |-> "A", href |-> ""]}

RowSeqs == UNION {[1..n -> Rows] : n \in 0..MaxRows}

\* a response body: markup the parser rejects, or a page with content rows
Pages == {[ok |-> FALSE, rows |-> <<>>]}
           \cup {[ok |-> TRUE, rows |-> r] : r \in RowSeqs}

\* str.strip() on the strings the rows can carry
Strip(str) ==
    CASE str = " A " -> "A"
      [] str = " " -> ""
      [] str = " /t/2 " -> "/t/2"
      [] OTHER -> str

\* urljoin(tracker_url(), link) for an absolute-path reference ("" gives
\* the base itself)
urljoin(base, ref) == base \o ref

\* reversed(content)
ReverseNot(s) == s
RECURSIVE Reverse(_)
Reverse(s) == IF s = <<>> THEN <<>> ELSE Append(Reverse(Tail(s)), Head(s))

\* the for loop of extractor(): the entries yielded for the content rows
RECURSIVE YieldsOfEither(_)
YieldsOfEither(rs) ==
    IF rs = <<>> THEN <<>>
    ELSE LET tag == Head(rs)
             rest == YieldsOfEither(Tail(rs))
         IN IF tag.name # "" \/ tag.href # ""
            THEN <<[name |-> Strip(tag.name),
                    link |-> urljoin(tracker_url, Strip(tag.href))]>> \o rest
            ELSE rest
RECURSIVE YieldsOf(_)
YieldsOf(rs) ==
    IF rs = <<>> THEN <<>>
    ELSE LET tag == Head(rs)
             rest == YieldsOf(Tail(rs))
         IN IF tag.name # "" /\ tag.href # ""
            THEN <<[name |-> Strip(tag.name),
                    link |-> urljoin(tracker_url, Strip(tag.href))]>> \o rest
            ELSE rest

extractor(trs) == YieldsOf(Reverse(trs))

\* what extractor() makes of a body: a parser error (kind "parsefail"), the
\* cooldown branch of `if not content` (kind "nocontent"), or the entries
\* yielded for its content rows; ok and norows record what the body was
ParseResultLoose(page) ==
    [kind |-> IF ~page.ok THEN "parsefail"
              ELSE IF extractor(page.rows) = <<>> THEN "nocontent" ELSE "rows",
     ys |-> IF page.ok THEN extractor(page.rows) ELSE <<>>,
     ok |-> page.ok, norows |-> page.rows = <<>>]
ParseResult(page) ==
    [kind |-> IF ~page.ok THEN "parsefail"
              ELSE IF page.rows = <<>> THEN "nocontent" ELSE "rows",
     ys |-> IF page.ok THEN extractor(page.rows) ELSE <<>>,
     ok |-> page.ok, norows |-> page.rows = <<>>]

ParseResults == {ParseResult(page) : page \in Pages}

(***************************************************************************)
(* Dedup Cache (utils.cache.LRU).                                          *)
(***************************************************************************)
Range(s) == {s[i] : i \in 1..Len(s)}

LRUContains(c, k) == k \in Range(c)

Without(c, k) == SelectSeq(c, LAMBDA x : x # k)

\* a membership test of an existing key refreshes its recency
LRUTouch(c, k) == IF LRUContains(c, k) THEN Append(Without(c, k), k) ELSE c

\* insertion: refresh an existing key, else evict the least recently
\* accessed key when at capacity
LRUPut(c, cap, k) ==
    IF LRUContains(c, k) THEN Append(Without(c, k), k)
    ELSE IF Len(c) >= cap THEN Append(Tail(c), k)
    ELSE Append(c, k)

\* LRU(cache_limit(), ...): the capacity handed to the cache
LRUCapacityOff == cache_limit + 1
LRUCapacityLess == cache_limit - 1
LRUCapacity == cache_limit

\* `url not in seen_urls`
IsNewAlways(c, url) == TRUE
IsNew(c, url) == ~LRUContains(c, url)

\* `if not seen_urls`
SeedIsEmptyNever(c) == FALSE
SeedIsEmpty(c) == Len(c) = 0

\* the exit status main() ends with: SystemExit(130) for KeyboardInterrupt,
\* 1 for the uncaught SystemExit carrying a message
ExitStatusUncaught(exc) == 1
ExitStatus(exc) == IF exc = "KeyboardInterrupt" THEN 130 ELSE 1

\* the `async for` over tracker() ends when nothing is left to yield
ExhaustedEarly(rest) == TRUE
Exhausted(rest) == rest = <<>>

\* where http_feed goes when a tracker() sweep is exhausted
AfterCycleSeed(ph) == "seed"
AfterCycleNoSleep(ph) == IF ph = "SEEDING" THEN "seed" ELSE "get"
AfterCycle(ph) == IF ph = "SEEDING" THEN "seed" ELSE "sleep"

(***************************************************************************)
(* Initial state: the session is open and the seeding sweep is about to    *)
(* issue its GET.                                                          *)
(***************************************************************************)
Init ==
    /\ phase = "SEEDING"
    /\ pc = "get"
    /\ cache = <<>>
    /\ collected = <<>>
    /\ pending = <<>>
    /\ html = FALSE
    /\ respOpen = FALSE
    /\ sessionOpen = TRUE
    /\ stdout = <<>>
    /\ stderr = <<>>
    /\ exitCode = -1
    /\ exitMsg = ""
    /\ waited = 0
    /\ cycle = 0
    /\ seeded = <<>>
    /\ seen = {}
    /\ sameListing = TRUE
    /\ lastEnd = "none"
    /\ status = 0
    /\ content = <<>>

\* session.get raises one of HTTP_EXCEPTIONS: report or suppress, end the sweep
GetFails ==
    /\ pc = "get"
    /\ phase = "RUNNING" => cycle < MaxCycles
    /\ \E e \in HTTP_EXCEPTIONS :
         /\ stderr' = IF Reported(e)
                      THEN Append(stderr, <<"Connection error", e.type, e.errno>>)
                      ELSE stderr
         /\ lastEnd' = IF IsOSError(e) /\ e.errno = ECONNRESET THEN "reset"
                       ELSE IF IsOSError(e) THEN "oserror" ELSE "request"
    /\ cycle' = IF phase = "RUNNING" THEN cycle + 1 ELSE cycle
    /\ waited' = 0
    /\ pc' = AfterCycle(phase)
    /\ status' = 0
    /\ UNCHANGED <<phase, cache, collected, pending, html, respOpen, sessionOpen,
                   stdout, exitCode, exitMsg, seeded, seen, sameListing, content>>

\* session.get returns a response; a status other than 200 ends the sweep
GetResponds ==
    /\ pc = "get"
    /\ phase = "RUNNING" => cycle < MaxCycles
    /\ cycle' = IF phase = "RUNNING" THEN cycle + 1 ELSE cycle
    /\ waited' = 0
    /\ \E st \in Statuses :
         /\ status' = st
         /\ lastEnd' = IF st # 200 THEN "status" ELSE "none"
         /\ IF ~StatusOK(st)
            THEN /\ pc' = AfterCycle(phase)
                 /\ respOpen' = FALSE
            ELSE /\ pc' = "read"
                 /\ respOpen' = TRUE
    /\ UNCHANGED <<phase, cache, collected, pending, html, sessionOpen,
                   stdout, stderr, exitCode, exitMsg, seeded, seen, sameListing,
                   content>>

\* await resp.text(): TimeoutError ends the sweep, else the body is held
ReadBody ==
    /\ pc = "read"
    /\ \/ /\ pc' = AfterCycle(phase)
          /\ respOpen' = FALSE
          /\ lastEnd' = "bodytimeout"
          /\ UNCHANGED html
       \/ /\ html' = TRUE
          /\ pc' = "parse"
          /\ UNCHANGED <<respOpen, lastEnd>>
    /\ UNCHANGED <<phase, cache, collected, pending, sessionOpen, stdout, stderr,
                   exitCode, exitMsg, waited, cycle, seeded, seen, sameListing,
                   status, content>>

\* extractor() on a body whose parse result is r: fromstring in the
\* executor, the CONTENT_PATH lookup, then the start of the for loop
ParseStep(r) ==
    /\ pc = "parse"
    /\ html' = FALSE
    /\ lastEnd' = IF ~r.ok THEN "parsefail"
                  ELSE IF r.norows THEN "nocontent"
                  ELSE IF r.ys = <<>> THEN "unusable"
                  ELSE "none"
    /\ IF r.kind = "parsefail"
       THEN /\ pc' = AfterCycle(phase)
            /\ respOpen' = FALSE
            /\ UNCHANGED <<pending, sameListing>>
       ELSE IF r.kind = "nocontent"
       THEN /\ pc' = "cooldown"
            /\ UNCHANGED <<pending, respOpen, sameListing>>
       ELSE /\ pending' = r.ys
            /\ sameListing' = IF phase = "RUNNING"
                              THEN sameListing /\ r.ys = seeded
                              ELSE sameListing
            /\ IF r.ys = <<>>
               THEN /\ pc' = AfterCycle(phase)
                    /\ respOpen' = FALSE
               ELSE /\ pc' = "yield"
                    /\ UNCHANGED respOpen
    /\ UNCHANGED <<phase, cache, collected, sessionOpen, stdout, stderr,
                   exitCode, exitMsg, waited, cycle, seeded, seen, status,
                   content>>

\* what the body holds is drawn here, where it is first looked at
Parse == \E r \in ParseResults : ParseStep(r)

\* await asleep(COOLDOWN); return
Cooldown ==
    /\ pc = "cooldown"
    /\ waited' = waited + COOLDOWN
    /\ pc' = AfterCycle(phase)
    /\ respOpen' = FALSE
    /\ UNCHANGED <<phase, cache, collected, pending, html, sessionOpen,
                   stdout, stderr, exitCode, exitMsg, cycle, seeded, seen,
                   sameListing, lastEnd, status, content>>

\* the list comprehension of the seeding sweep takes the next yielded entry
Collect ==
    /\ pc = "yield"
    /\ phase = "SEEDING"
    /\ pending # <<>>
    /\ collected' = Append(collected, Head(pending).link)
    /\ seeded' = Append(seeded, Head(pending))
    /\ seen' = seen \cup {Head(pending).link}
    /\ pending' = Tail(pending)
    /\ IF Exhausted(Tail(pending))
       THEN /\ pc' = AfterCycle(phase)
            /\ respOpen' = FALSE
            /\ lastEnd' = "entries"
       ELSE UNCHANGED <<pc, respOpen, lastEnd>>
    /\ UNCHANGED <<phase, cache, html, sessionOpen, stdout, stderr, exitCode,
                   exitMsg, waited, cycle, sameListing, status, content>>

\* LRU(cache_limit(), items): the constructor stores the next collected key
SeedInsert ==
    /\ pc = "seed"
    /\ collected # <<>>
    /\ cache' = LRUPut(cache, LRUCapacity, Head(collected))
    /\ collected' = Tail(collected)
    /\ UNCHANGED <<phase, pc, pending, html, respOpen, sessionOpen, stdout,
                   stderr, exitCode, exitMsg, waited, cycle, seeded, seen,
                   sameListing, lastEnd, status, content>>

\* `if not seen_urls: raise SystemExit('Expired credentials')`, else `while True`
SeedCheck ==
    /\ pc = "seed"
    /\ collected = <<>>
    /\ IF SeedIsEmpty(cache)
       THEN /\ pc' = "aborted"
            /\ exitCode' = ExitStatus("SystemExit")
            /\ exitMsg' = "Expired credentials"
            /\ sessionOpen' = FALSE
            /\ UNCHANGED phase
       ELSE /\ pc' = "get"
            /\ phase' = "RUNNING"
            /\ UNCHANGED <<exitCode, exitMsg, sessionOpen>>
    /\ UNCHANGED <<cache, collected, pending, html, respOpen, stdout, stderr,
                   waited, cycle, seeded, seen, sameListing, lastEnd, status,
                   content>>

\* body of the RUNNING `async for`: test the url, print the entry if new
\* (a printed line also records the cycle that printed it)
Process ==
    /\ pc = "yield"
    /\ phase = "RUNNING"
    /\ pending # <<>>
    /\ LET e == Head(pending)
       IN /\ stdout' = IF IsNew(cache, e.link)
                       THEN Append(stdout, [name |-> e.name, link |-> e.link,
                                            cycle |-> cycle])
                       ELSE stdout
          /\ cache' = LRUTouch(cache, e.link)
          /\ seen' = seen \cup {e.link}
    /\ pending' = Tail(pending)
    /\ IF Exhausted(Tail(pending))
       THEN /\ pc' = AfterCycle(phase)
            /\ respOpen' = FALSE
            /\ lastEnd' = "entries"
       ELSE UNCHANGED <<pc, respOpen, lastEnd>>
    /\ UNCHANGED <<phase, collected, html, sessionOpen, stderr, exitCode,
                   exitMsg, waited, cycle, seeded, sameListing, status, content>>

\* await asleep(timeout_interval())
Sleep ==
    /\ pc = "sleep"
    /\ waited' = waited + timeout_interval
    /\ pc' = "get"
    /\ UNCHANGED <<phase, cache, collected, pending, html, respOpen, sessionOpen,
                   stdout, stderr, exitCode, exitMsg, cycle, seeded, seen,
                   sameListing, lastEnd, status, content>>

\* KeyboardInterrupt out of run_until_complete while the coroutine is
\* suspended: main() raises SystemExit(130); the coroutine is not resumed
Interrupt ==
    /\ pc \in {"get", "read", "parse", "cooldown", "yield", "sleep"}
    /\ pc' = "interrupted"
    /\ exitCode' = ExitStatus("KeyboardInterrupt")
    /\ UNCHANGED <<phase, cache, collected, pending, html, respOpen, sessionOpen,
                   stdout, stderr, exitMsg, waited, cycle, seeded, seen,
                   sameListing, lastEnd, status, content>>

Next ==
    \/ GetFails
    \/ GetResponds
    \/ ReadBody
    \/ Parse
    \/ Cooldown
    \/ Collect
    \/ SeedInsert
    \/ SeedCheck
    \/ Process
    \/ Sleep
    \/ Interrupt

Spec == Init /\ [][Next]_vars

(***************************************************************************)
(* One RUNNING cycle from the point where the body has been read: the      *)
(* content rows are drawn from a wider alphabet (padded and blank strings) *)
(* and kept in `content`, the cache is any cache seeding can leave behind. *)
(***************************************************************************)
ExtractRows ==
    { [name |-> "A", href |-> "/t/1"], [name |-> "A", href |-> "/t/2"],
      [name |-> " A ", href |-> " /t/2 "], [name |-> "A", href |-> "/t/3"],
      [name |-> "", href |-> "/t/1"], [name |-> "A", href |-> ""],
      [name |-> " ", href |-> "/t/3"] }

ExtractInputs == UNION {[1..n -> ExtractRows] : n \in 1..MaxRows}

Links == {urljoin(tracker_url, h) : h \in Hrefs}

\* the caches a seeding sweep can leave: up to cache_limit distinct links
Caches ==
    {c \in UNION {[1..n -> Links] : n \in 1..cache_limit} :
        \A i, j \in 1..Len(c) : i # j => c[i] # c[j]}

ExtractInit ==
    /\ phase = "RUNNING"
    /\ pc = "parse"
    /\ cache \in Caches
    /\ seeded = [i \in 1..Len(cache) |-> [name |-> "A", link |-> cache[i]]]
    /\ seen = Range(cache)
    /\ content \in ExtractInputs
    /\ collected = <<>>
    /\ pending = <<>>
    /\ html = TRUE
    /\ respOpen = TRUE
    /\ sessionOpen = TRUE
    /\ stdout = <<>>
    /\ stderr = <<>>
    /\ exitCode = -1
    /\ exitMsg = ""
    /\ waited = 0
    /\ cycle = 1
    /\ sameListing = TRUE
    /\ lastEnd = "none"
    /\ status = 200

\* extractor() on the body whose content rows are `content`
ParseContent == ParseStep(ParseResult([ok |-> TRUE, rows |-> content]))

ExtractNext ==
    \/ ParseContent
    \/ Process

ExtractSpec == ExtractInit /\ [][ExtractNext]_vars

TypeOK ==
    /\ phase \in {"SEEDING", "RUNNING"}
    /\ pc \in {"get", "read", "parse", "cooldown", "yield", "seed", "sleep",
               "aborted", "interrupted"}
    /\ Len(cache) <= Cardinality(Hrefs)
    /\ cycle \in 0..MaxCycles
    /\ exitCode \in {-1, 1, 130}

(***************************************************************************)
(* Helpers for the properties.                                             *)
(***************************************************************************)
Emits == Len(stdout') > Len(stdout)
NewLine == stdout'[Len(stdout')]
LinksOf(s) == {s[i].link : i \in 1..Len(s)}
EntriesOf(s) == {[name |-> s[i].name, link |-> s[i].link] : i \in 1..Len(s)}

\* the ways a sweep can end without yielding an entry
EmptyEnds == {"reset", "oserror", "request", "status", "bodytimeout",
              "parsefail", "nocontent", "unusable"}

\* this step is the one that ends a sweep which yielded nothing
EndsEmptySweep ==
    /\ pc' # "interrupted"
    /\ \/ pc \in {"get", "read", "parse"} /\ lastEnd' \in EmptyEnds \ {"nocontent"}
       \/ pc = "cooldown"

\* number of seeding keys the LRU constructor has stored so far
SeedDone == Len(seeded) - Len(collected)

\* position of the latest access to key k among the keys stored so far
LastAccess(k) ==
    LET S == {i \in 1..SeedDone : seeded[i].link = k}
    IN IF S = {} THEN 0 ELSE CHOOSE i \in S : \A j \in S : j <= i

\* C1: in RUNNING, right after an entry is emitted (and before the next
\* entry of the cycle is processed) its link is a member of the cache.
C1_EmittedLinkIsCached ==
    [][Emits => LRUContains(cache', NewLine.link)]_vars

\* C2: while the number of distinct links ever seen (seeded plus yielded)
\* is at most the cache capacity, no link is emitted more than once.
C2_NoLinkEmittedTwice ==
    Cardinality(seen) <= cache_limit =>
        \A i, j \in 1..Len(stdout) : i # j => stdout[i].link # stdout[j].link

\* C3: an entry whose link is in the cache when it is processed produces no
\* output line; every emission happens in RUNNING for a link that was not a
\* member of the cache when it was tested.
C3_NoEmissionForCachedLink ==
    [][/\ Emits => (phase = "RUNNING" /\ ~LRUContains(cache, NewLine.link))
       /\ (pc = "yield" /\ phase = "RUNNING" /\ LRUContains(cache, Head(pending).link))
             => stdout' = stdout]_vars

\* a RUNNING cycle yielded entries and every one of them was suppressed
C3_Witness ==
    phase = "RUNNING" /\ pc = "sleep" /\ lastEnd = "entries" /\ stdout = <<>>

\* C4: nothing is written during SEEDING, and when the sweep yields at most
\* cache_limit distinct links all of them are in the cache right after
\* seeding, before the first RUNNING fetch.
C4_SeedingSilentAndComplete ==
    /\ phase = "SEEDING" => stdout = <<>>
    /\ (phase = "RUNNING" /\ cycle = 0 /\ pc = "get"
          /\ Cardinality(LinksOf(seeded)) <= cache_limit)
         => (LinksOf(seeded) \subseteq Range(cache) /\ stdout = <<>>)

\* seeding has just finished with exactly cache_limit distinct links
C4_Witness ==
    /\ phase = "RUNNING" /\ cycle = 0 /\ pc = "get"
    /\ Cardinality(LinksOf(seeded)) = cache_limit
    /\ Len(seeded) > cache_limit

\* C5: when the cycles after seeding return the same listing as the seeding
\* sweep, the loop never emits all entries of that listing, whatever the
\* listing size and the capacity.
C5_NoFlood ==
    (sameListing /\ seeded # <<>>) => ~(EntriesOf(seeded) \subseteq EntriesOf(stdout))

\* a listing larger than the capacity came back again and only part of it
\* was emitted
C5_Witness ==
    /\ sameListing /\ phase = "RUNNING" /\ cycle >= 1 /\ pc = "sleep"
    /\ lastEnd = "entries"
    /\ Cardinality(LinksOf(seeded)) > cache_limit
    /\ stdout # <<>>

\* C6: a SEEDING sweep that yields zero entries, whatever the cause, ends in
\* the 'Expired credentials' exit with a non-zero status; RUNNING is never
\* entered, no RUNNING fetch is issued and nothing is emitted.
C6_AbortOnEmptySeed ==
    /\ [](seeded = <<>> => (phase = "SEEDING" /\ cycle = 0 /\ stdout = <<>>))
    /\ []((phase = "SEEDING" /\ lastEnd \in EmptyEnds)
            => (seeded = <<>> /\ pc \in {"cooldown", "seed", "aborted", "interrupted"}))
    /\ [][(pc = "seed" /\ seeded = <<>>)
            => (pc' = "aborted" /\ exitCode' = 1 /\ exitMsg' = "Expired credentials"
                /\ phase' = "SEEDING" /\ stdout' = <<>> /\ cycle' = 0)]_vars
    /\ [](pc = "aborted" => (exitCode = 1 /\ exitMsg = "Expired credentials"
                             /\ seeded = <<>> /\ phase = "SEEDING"))

\* the process has aborted after a seeding sweep of rows without usable fields
C6_Witness == pc = "aborted" /\ lastEnd = "unusable" /\ exitCode = 1

\* C7: ABORT is entered only from SEEDING; in RUNNING a cycle that yields
\* nothing is followed by the interval sleep and then by another fetch, and
\* the empty-listing check is never applied.
C7_RunningNeverAborts ==
    /\ [][pc' = "aborted" => phase = "SEEDING"]_vars
    /\ [][phase = "RUNNING" => (phase' = "RUNNING" /\ pc' \notin {"seed", "aborted"})]_vars
    /\ [][(phase = "RUNNING" /\ EndsEmptySweep) => pc' = "sleep"]_vars
    /\ [][(pc = "sleep" /\ pc' # "interrupted") => pc' = "get"]_vars

\* a second RUNNING cycle has started after an empty first one
C7_Witness ==
    phase = "RUNNING" /\ cycle >= 2 /\ pc = "read" /\ cache # <<>> /\ stdout = <<>>
        /\ stderr # <<>>

\* C8: the cache never holds more than cache_limit keys, and a key leaves the
\* cache only when an insertion overflows it, the key removed being the
\* least recently accessed one.
C8_CapacityAndLRUEviction ==
    /\ [](Len(cache) <= cache_limit /\ Cardinality(Range(cache)) = Len(cache))
    /\ [][Range(cache) \ Range(cache') # {} =>
            /\ pc = "seed"
            /\ Len(cache) = cache_limit
            /\ Len(cache') = cache_limit
            /\ \E k \in Range(cache) :
                 /\ Range(cache) \ Range(cache') = {k}
                 /\ \A j \in Range(cache) : LastAccess(k) <= LastAccess(j)]_vars

\* an overflowing seeding sweep kept its first key, which had been stored
\* again before the overflow, and evicted the key stored after it
C8_Witness ==
    /\ phase = "RUNNING" /\ Len(cache) = cache_limit
    /\ Cardinality(LinksOf(seeded)) > cache_limit
    /\ Len(seeded) = Cardinality(LinksOf(seeded)) + 1
    /\ seeded[1].link \in Range(cache)
    /\ seeded[Len(seeded)].link # seeded[1].link

\* C9 as stated: after a cycle that fetched a page with zero content rows
\* the delay before the next fetch is exactly the cooldown duration.
C9_DelayIsCooldown ==
    (pc = "get" /\ lastEnd = "nocontent") => waited = COOLDOWN

\* C9 amended: the next fetch comes after the cooldown sleep followed by the
\* normal interval sleep (11 times the interval); a SEEDING sweep with zero
\* content rows is followed by no fetch at all.
C9_DelayIsCooldownPlusInterval ==
    /\ (pc = "get" /\ lastEnd = "nocontent")
          => (phase = "RUNNING" /\ waited = 10 * timeout_interval + timeout_interval)
    /\ (pc = "sleep" /\ lastEnd = "nocontent") => waited = 10 * timeout_interval
    /\ (phase = "SEEDING" /\ lastEnd = "nocontent") => pc # "get"

\* the loop is about to fetch again after an empty-content cycle
C9_Witness == pc = "get" /\ lastEnd = "nocontent" /\ cycle >= 1 /\ waited > 0

\* C10: a cycle whose GET fails with a connection-reset OS error writes
\* nothing to stderr, yields and emits nothing, and leaves the cache and the
\* next action exactly as a response with an empty result does.
C10_ConnectionResetSilent ==
    [][(pc = "get" /\ pc' # "interrupted"
          /\ (cycle' # cycle \/ phase = "SEEDING") /\ lastEnd' = "reset")
        => (/\ stderr' = stderr
            /\ stdout' = stdout
            /\ cache' = cache
            /\ pending' = <<>> /\ collected' = collected /\ seeded' = seeded
            /\ respOpen' = FALSE
            /\ waited' = 0
            /\ pc' = IF phase = "RUNNING" THEN "sleep" ELSE "seed")]_vars

\* a RUNNING cycle ended by a connection reset, nothing having been reported
C10_Witness ==
    phase = "RUNNING" /\ pc = "sleep" /\ lastEnd = "reset" /\ stderr = <<>>

(***************************************************************************)
(* Helpers for the properties of the extraction and of the loop's pacing.  *)
(***************************************************************************)
\* this step is a GET (answered or failed)
IsGet == pc = "get" /\ pc' \notin {"get", "interrupted"}

\* a content row has both XPath strings non-empty
Usable(row) == row.name # "" /\ row.href # ""
UsableIdx(c) == {i \in 1..Len(c) : Usable(c[i])}

\* the entry a usable row stands for
EntryOfRow(row) ==
    [name |-> Strip(row.name), link |-> tracker_url \o Strip(row.href)]

\* the usable rows of c as entries, last row of the document first
ReverseDocumentOrder(c) ==
    LET U == UsableIdx(c)
    IN [j \in 1..Cardinality(U) |->
          EntryOfRow(c[CHOOSE i \in U : Cardinality({k \in U : k >= i}) = j])]

LinesAsEntries(out) ==
    [i \in 1..Len(out) |-> [name |-> out[i].name, link |-> out[i].link]]

RECURSIVE IsSubseq(_, _)
IsSubseq(a, b) ==
    IF a = <<>> THEN TRUE
    ELSE IF b = <<>> THEN FALSE
    ELSE IF Head(a) = Head(b) THEN IsSubseq(Tail(a), Tail(b))
    ELSE IsSubseq(a, Tail(b))

\* position of the last occurrence of link k in the seeding sweep
LastSeeded(k) ==
    LET S == {i \in 1..Len(seeded) : seeded[i].link = k}
    IN IF S = {} THEN 0 ELSE CHOOSE i \in S : \A j \in S : j <= i

C12_Non200IsEmptyCycle ==
    /\ [](status \notin {0, 200}
            => /\ pc \in {"seed", "sleep", "get", "aborted", "interrupted"}
               /\ html = FALSE /\ respOpen = FALSE /\ pending = <<>>
               /\ lastEnd = "status")
    /\ [][(IsGet /\ status' \notin {0, 200})
            => /\ stdout' = stdout /\ stderr' = stderr /\ cache' = cache
               /\ waited' = 0
               /\ pc' = IF phase = "RUNNING" THEN "sleep" ELSE "seed"]_vars
    /\ [][(status \notin {0, 200} /\ phase = "RUNNING" /\ pc' = "get")
            => (pc = "sleep" /\ cycle' = cycle)]_vars

\* a RUNNING cycle was answered with a redirect and the loop is asleep
C12_Witness ==
    phase = "RUNNING" /\ pc = "sleep" /\ status = 302 /\ lastEnd = "status"

\* C13: the entries of a cycle are the usable rows in reverse document
\* order; they are tested and emitted in that order, so the lines of the
\* cycle are a subsequence of the rows taken last to first.
C13_ReverseDocumentOrder ==
    pc \in {"yield", "sleep"} =>
        LET full == ReverseDocumentOrder(content)
            done == Len(full) - Len(pending)
        IN /\ done >= 0
           /\ pending = SubSeq(full, done + 1, Len(full))
           /\ IsSubseq(LinesAsEntries(stdout), SubSeq(full, 1, done))

\* a page with an unusable row: two different lines came out, one entry was
\* suppressed
C13_Witness ==
    /\ pc = "sleep" /\ Len(stdout) = 2 /\ stdout[1].link # stdout[2].link
    /\ Len(ReverseDocumentOrder(content)) = 3
    /\ Len(content) = 4

\* C14: one cycle is in flight at a time: when a GET is issued nothing of the
\* previous cycle is left (no entry unprocessed, no body held, the response
\* released), and in RUNNING the sleep after the previous cycle is over.
C14_OneCycleInFlight ==
    /\ [](pc = "get" => (pending = <<>> /\ html = FALSE /\ respOpen = FALSE))
    /\ [](pc \in {"sleep", "seed"} => (pending = <<>> /\ html = FALSE /\ respOpen = FALSE))
    /\ []((pc = "get" /\ phase = "RUNNING" /\ cycle >= 1) => waited >= timeout_interval)
    /\ [][cycle' # cycle => IsGet]_vars
    /\ [][Emits => (pc = "yield" /\ respOpen /\ stdout' = Append(stdout, NewLine)
                    /\ NewLine.cycle = cycle)]_vars

\* the second RUNNING cycle is about to fetch after a first one that emitted
\* more than one line
C14_Witness ==
    /\ phase = "RUNNING" /\ pc = "get" /\ cycle = 1 /\ Len(stdout) >= 2
    /\ waited = timeout_interval

\* C15: an interrupt can arrive wherever the coroutine is suspended, in
\* SEEDING and in RUNNING; it ends the process with status 130 and nothing
\* is fetched or emitted afterwards.
C15_InterruptExits130 ==
    /\ []((pc \in {"get", "read", "parse", "cooldown", "yield", "sleep"}
           /\ (pc = "get" /\ phase = "RUNNING" => cycle < MaxCycles))
            => ENABLED Interrupt)
    /\ [](pc = "interrupted" => exitCode = 130)
    /\ [][pc' = "interrupted"
            => (exitCode' = 130 /\ stdout' = stdout /\ stderr' = stderr
                /\ cycle' = cycle /\ cache' = cache)]_vars
    /\ [][pc # "interrupted"]_vars

\* interrupted during the cooldown sleep of a RUNNING cycle
C15_Witness ==
    /\ pc = "interrupted" /\ phase = "RUNNING" /\ lastEnd = "nocontent"
    /\ waited = 0 /\ exitCode = 130

\* C16: a content row is in the extracted sequence exactly when its name and
\* its link are both non-empty; its link is the href joined to the tracker
\* URL; unusable rows change nothing for the others.
C16_SkipPolicy ==
    [][(pc = "parse" /\ pc' # "parse")
        => LET U == UsableIdx(content)
           IN /\ Len(pending') = Cardinality(U)
              /\ \A i \in U : \E j \in 1..Len(pending') :
                    /\ pending'[j].name = Strip(content[i].name)
                    /\ pending'[j].link = tracker_url \o Strip(content[i].href)
                    /\ Cardinality({k \in 1..Len(pending') : pending'[k] = pending'[j]})
                         = Cardinality({k \in U : EntryOfRow(content[k]) = pending'[j]})
              /\ (U = {}) = (pc' = "sleep")
              /\ (U # {}) = (pc' = "yield")]_vars

\* rows without a name and without a link were skipped between two kept rows
C16_Witness ==
    /\ pc = "yield" /\ Len(content) = 4 /\ Len(pending) = 2 /\ stdout = <<>>
    /\ ~Usable(content[2]) /\ ~Usable(content[3])
    /\ content[2] # content[3]
    /\ content[1].name = " A "

\* C17: a seeding sweep of n > cache_limit distinct links leaves exactly the
\* last cache_limit of them in the cache, in yield order; the first
\* n - cache_limit are absent.
C17_SeedingOverflowKeepsLast ==
    (phase = "RUNNING" /\ cycle = 0 /\ pc = "get")
      => /\ (Len(seeded) = Cardinality(LinksOf(seeded)) /\ Len(seeded) > cache_limit)
              => /\ Len(cache) = cache_limit
                 /\ \A i \in 1..cache_limit :
                       cache[i] = seeded[Len(seeded) - cache_limit + i].link
                 /\ \A i \in 1..(Len(seeded) - cache_limit) :
                       ~LRUContains(cache, seeded[i].link)
         /\ \A k \in LinksOf(seeded) :
               LRUContains(cache, k)
                 <=> Cardinality({m \in LinksOf(seeded) : LastSeeded(m) > LastSeeded(k)})
                        < cache_limit

\* seeding has just finished on a sweep of more distinct links than fit
C17_Witness ==
    /\ phase = "RUNNING" /\ cycle = 0 /\ pc = "get"
    /\ Len(seeded) = Cardinality(LinksOf(seeded))
    /\ Len(seeded) > cache_limit

\* C18: the cooldown sleep is entered only after a parsed body with zero
\* content rows; every other end of a cycle (request failure, status other
\* than 200, body timeout, parse failure, rows without usable fields,
\* entries) goes on without it.
C18_CooldownOnlyForNoContent ==
    /\ pc = "cooldown" => (lastEnd = "nocontent" /\ status = 200)
    /\ (pc \in {"sleep", "seed"} /\ lastEnd # "nocontent") => waited = 0
    /\ (pc = "get" /\ phase = "RUNNING" /\ cycle >= 1 /\ lastEnd # "nocontent")
          => waited = timeout_interval
    /\ waited \in {0, timeout_interval, 10 * timeout_interval,
                   10 * timeout_interval + timeout_interval}

\* a RUNNING cycle found only rows without usable fields and went to the
\* normal sleep
C18_Witness ==
    phase = "RUNNING" /\ pc = "get" /\ cycle >= 1 /\ lastEnd = "unusable"
        /\ waited = timeout_interval

\* C19: in RUNNING each cycle issues one GET and every cycle, whatever its
\* outcome, is followed by the interval sleep: the next GET is reached only
\* through that sleep.
C19_SleepBetweenFetches ==
    /\ [][(phase = "RUNNING" /\ pc' = "get" /\ pc # "get")
            => (pc = "sleep" /\ waited' = waited + timeout_interval)]_vars
    /\ [][(phase = "RUNNING" /\ IsGet)
            => (cycle' = cycle + 1 /\ waited' = 0
                /\ (cycle >= 1 => waited >= timeout_interval))]_vars
    /\ [][(phase = "RUNNING" /\ pc # "get") => cycle' = cycle]_vars
    /\ [][(phase = "RUNNING" /\ pc \in {"read", "parse", "yield", "cooldown"})
            => pc' \in {"read", "parse", "yield", "cooldown", "sleep", "interrupted"}]_vars

\* the second RUNNING fetch has been issued after a cycle that emitted
C19_Witness ==
    phase = "RUNNING" /\ cycle = 2 /\ pc = "read" /\ stdout # <<>> /\ waited = 0

\* C20: whenever the process has exited (abort or interrupt) the HTTP
\* session has been closed and no response is left open.
C20_SessionReleasedAtExit ==
    exitCode # -1 => (sessionOpen = FALSE /\ respOpen = FALSE)
====
